---- MODULE Spec2Model ----
(***************************************************************************)
(* Model of src/index.py: a Gradio page that fetches a provider / model /  *)
(* task catalog, cascades three dropdowns, and posts a hand-built          *)
(* multipart request to a remote image generation service.                 *)
(*                                                                         *)
(* Python dictionaries are association lists (sequences of <<key, value>>  *)
(* pairs), so that key order is part of the value, as it is in Python.     *)
(* Python's None is the string NoneVal, which is no provider, model, task  *)
(* or text the model ever uses.                                            *)
(*                                                                         *)
(* A component returned by a handler updates only the properties that were *)
(* passed to its constructor: gr.Dropdown(choices=[]) replaces the choices *)
(* and leaves the value alone.  A change listener runs when the value of   *)
(* its component changes, by the user or by such an update.                *)
(***************************************************************************)
EXTENDS Naturals, Sequences, FiniteSets

VARIABLES
    pc,               \* "start" | "built" | "serving" | "faulted"
    fault,            \* the exception that ended the process, or NoneVal
    providerChoices,  \* provider_dropdown.choices
    providerValue,    \* provider_dropdown.value
    modelChoices,     \* model_dropdown.choices
    modelValue,       \* model_dropdown.value
    taskChoices,      \* task_dropdown.choices
    taskValue,        \* task_dropdown.value
    customVisible,    \* custom_model_input.visible
    customValue,      \* custom_model_input.value
    imageVisible,     \* image_input.visible
    imageValue,       \* image_input.value (a PIL image, or None)
    outputImage,      \* output_image.value
    pending,          \* the listeners triggered and not yet run
    last              \* the most recent step: what ran, with what, and what it returned

vars == <<pc, fault, providerChoices, providerValue, modelChoices, modelValue,
          taskChoices, taskValue, customVisible, customValue, imageVisible,
          imageValue, outputImage, pending, last>>

NoneVal == "<None>"

\* How many of the catalogs below the remote service serves.
MaxCatalog == 4

(***************************************************************************)
(* Dictionaries                                                            *)
(***************************************************************************)
Keys(d) == [i \in 1..Len(d) |-> d[i][1]]

Has(d, k) == \E i \in 1..Len(d) : d[i][1] = k

Get(d, k) == d[CHOOSE i \in 1..Len(d) : d[i][1] = k][2]

InSeq(x, s) == \E i \in 1..Len(s) : s[i] = x

Truthy(s) == s # NoneVal /\ s # ""

(***************************************************************************)
(* The catalogs the remote /models endpoint may serve.                     *)
(***************************************************************************)
T2I == "text_to_image"
I2I == "image_to_image"

CatalogA ==
    << <<"openai",    << <<"*", <<T2I, I2I>> >>, <<"dall-e", <<T2I>> >> >> >>,
       <<"stability", << <<"sdxl", <<I2I, T2I>> >>, <<"draft", <<>> >> >> >>,
       <<"idle",      <<>> >> >>

\* A later catalog: openai is gone, sdxl lost a task, and a provider is named "error".
CatalogB ==
    << <<"stability", << <<"sdxl", <<T2I>> >> >> >>,
       <<"error",     << <<"dall-e", <<T2I>> >> >> >> >>

CatalogEmpty == << >>

\* A later catalog without openai and without stability's draft model.
CatalogC ==
    << <<"stability", << <<"sdxl", <<T2I>> >> >> >>,
       <<"idle",      << <<"*", <<I2I>> >> >> >> >>

\* The same providers as CatalogA, in another order and with other first models.
CatalogD ==
    << <<"stability", << <<"draft", <<T2I>> >>, <<"sdxl", <<I2I>> >> >> >>,
       <<"openai",    << <<"dall-e", <<I2I, T2I>> >> >> >> >>

Catalog(i) ==
    CASE i = 1 -> CatalogA
      [] i = 2 -> CatalogB
      [] i = 3 -> CatalogC
      [] i = 4 -> CatalogEmpty
      [] OTHER -> CatalogD

\* What get_models returns when the request fails.
ErrorMarker == << <<"error", "Failed to fetch models: 500 Server Error">> >>

\* The outcomes of one GET /models: 0 is a failure, i > 0 serves Catalog(i).
FetchOutcomes == 0..MaxCatalog

get_models(o) == IF o = 0 THEN ErrorMarker ELSE Catalog(o)

(***************************************************************************)
(* Component updates                                                       *)
(***************************************************************************)
\* gr.Dropdown(choices=c): the value is not part of the update.
DropdownChoices(c) == [choices |-> c, setsValue |-> FALSE, value |-> NoneVal]

\* gr.Dropdown(choices=c, value=v)
DropdownChoicesValue(c, v) == [choices |-> c, setsValue |-> TRUE, value |-> v]

\* The value of a dropdown after an update of it.
UpdatedValue(old, upd) == IF upd.setsValue THEN upd.value ELSE old

ErrorLoadingModels == "Error loading models"

\* update_model_dropdown with no sentinel choice on a failed fetch.
update_model_dropdown_EmptyOnError(provider, models_data) ==
    IF Has(models_data, "error")
    THEN DropdownChoices(<< >>)
    ELSE IF Truthy(provider) /\ Has(models_data, provider)
         THEN LET models == Keys(Get(models_data, provider))
              IN  DropdownChoicesValue(models,
                     IF Len(models) > 0 THEN models[1] ELSE NoneVal)
         ELSE DropdownChoices(<< >>)

update_model_dropdown(provider, models_data) ==
    IF Has(models_data, "error")
    THEN DropdownChoices(<<ErrorLoadingModels>>)
    ELSE IF Truthy(provider) /\ Has(models_data, provider)
         THEN LET models == Keys(Get(models_data, provider))
              IN  DropdownChoicesValue(models,
                     IF Len(models) > 0 THEN models[1] ELSE NoneVal)
         ELSE DropdownChoices(<< >>)

update_task_dropdown(provider, model, models_data) ==
    IF Has(models_data, "error")
    THEN DropdownChoices(<<ErrorLoadingModels>>)
    ELSE IF /\ Truthy(provider)
            /\ Truthy(model)
            /\ Has(models_data, provider)
            /\ Has(Get(models_data, provider), model)
         THEN LET tasks == Get(Get(models_data, provider), model)
              IN  DropdownChoicesValue(tasks,
                     IF Len(tasks) > 0 THEN tasks[1] ELSE NoneVal)
         ELSE DropdownChoices(<< >>)

\* show_custom_model testing the wrong argument.
show_custom_model_TestsProvider(provider, model) == (provider = "*")

show_custom_model(provider, model) == (model = "*")

\* lambda x: gr.Image(visible=(x == "image_to_image"))
image_visible(x) == (x = I2I)

(***************************************************************************)
(* generate_image: the request encoder                                     *)
(***************************************************************************)
boundary == "WebAppBoundary"

DefaultPrompt == "default prompt"

\* A PIL image saved as PNG: the bytes of the image part.
SavePng(input_image) == IF input_image = "cat.jpg" THEN "png(cat)" ELSE "png(other)"

\* A text field (key, value) and the file field (key, (filename, data, content_type)).
TextField(key, value) ==
    [key |-> key, isTuple |-> FALSE, value |-> value,
     filename |-> "", content_type |-> ""]

FileField(key, filename, file_data, content_type) ==
    [key |-> key, isTuple |-> TRUE, value |-> file_data,
     filename |-> filename, content_type |-> content_type]

\* The model field with the custom model preferred for any selected model.
ResolvedModel_AnyModel(model, custom_model) ==
    IF Truthy(custom_model) THEN custom_model ELSE model

\* The model field: the custom model only for "*" with a custom model given.
ResolvedModel(model, custom_model) ==
    IF model = "*" /\ Truthy(custom_model) THEN custom_model ELSE model

\* The image field appended for any task.
AddsImage_AnyTask(task, input_image) == input_image # NoneVal

\* Whether the image field is appended.
AddsImage(task, input_image) == task = I2I /\ input_image # NoneVal

Fields(provider, model, task, prompt, input_image, custom_model) ==
    << TextField("provider", provider),
       TextField("task", task),
       TextField("prompt", IF Truthy(prompt) THEN prompt ELSE DefaultPrompt),
       TextField("model", ResolvedModel(model, custom_model)) >>
    \o (IF AddsImage(task, input_image)
        THEN << FileField("image", "input.png", SavePng(input_image), "image/png") >>
        ELSE << >>)

\* The Python type of a part: text parts are str, file data is bytes.
PyType(v, isBytes) ==
    IF v = NoneVal THEN "NoneType" ELSE IF isBytes THEN "bytes" ELSE "str"

Line(kind, a, b) == [kind |-> kind, a |-> a, b |-> b]

PartsOf(f) ==
    IF f.isTuple
    THEN << Line("delimiter", boundary, ""),
            Line("Content-Disposition", f.key, f.filename),
            Line("Content-Type", f.content_type, ""),
            Line("blank", "", ""),
            Line("data", f.value, PyType(f.value, TRUE)) >>
    ELSE << Line("delimiter", boundary, ""),
            Line("Content-Disposition", f.key, ""),
            Line("blank", "", ""),
            Line("data", f.value, PyType(f.value, FALSE)) >>

RECURSIVE Parts(_)
Parts(fields) ==
    IF fields = << >> THEN << Line("close", boundary, "") >>
    ELSE PartsOf(Head(fields)) \o Parts(Tail(fields))

\* b'\r\n'.join(...) raises TypeError on a part that is neither str nor bytes.
JoinRaises(parts) == \E i \in 1..Len(parts) : parts[i].b = "NoneType"

\* The responses of POST /generate.
Responses == {"image", "http_500", "not_an_image"}

DecodedImage == "<PIL.Image>"

ErrorString(response) ==
    IF response = "http_500" THEN "Error: 500 Server Error"
    ELSE "Error: cannot identify image file"

IsErrorString(s) == s \in {ErrorString(r) : r \in Responses \ {"image"}}

\* What one call does: the exception it raises (or NoneVal), the body it posts
\* and the value it returns.
generate_image(provider, model, task, prompt, input_image, custom_model, response) ==
    LET parts == Parts(Fields(provider, model, task, prompt, input_image, custom_model))
    IN  IF JoinRaises(parts)
        THEN [raised |-> "TypeError", body |-> << >>, ret |-> NoneVal]
        ELSE [raised |-> NoneVal, body |-> parts,
              ret |-> IF response = "image" THEN DecodedImage
                      ELSE ErrorString(response)]

\* Reading an encoded body.
HasPart(body, name) ==
    \E i \in 1..Len(body) : body[i].kind = "Content-Disposition" /\ body[i].a = name

PartValue(body, name) ==
    LET i == CHOOSE j \in 1..Len(body) :
                 body[j].kind = "Content-Disposition" /\ body[j].a = name
    IN  body[i + 2].a

(***************************************************************************)
(* The page                                                                *)
(***************************************************************************)
NoArgs ==
    [provider |-> NoneVal, model |-> NoneVal, task |-> NoneVal, prompt |-> NoneVal,
     input_image |-> NoneVal, custom_model |-> NoneVal]

Step(op, fetch, args, body, ret, raised) ==
    [op |-> op, fetch |-> fetch, args |-> args, body |-> body, ret |-> ret,
     raised |-> raised]

\* A step of the user: nothing of the program ran.
UserStep == Step("user", 0, NoArgs, << >>, NoneVal, NoneVal)

\* The listeners a user event triggered have run: the page takes the next event.
Idle == pc = "serving" /\ pending = {}

Init ==
    /\ pc = "start"
    /\ fault = NoneVal
    /\ providerChoices = << >>
    /\ providerValue = NoneVal
    /\ modelChoices = << >>
    /\ modelValue = NoneVal
    /\ taskChoices = << >>
    /\ taskValue = NoneVal
    /\ customVisible = FALSE
    /\ customValue = ""
    /\ imageVisible = FALSE
    /\ imageValue = NoneVal
    /\ outputImage = NoneVal
    /\ pending = {}
    /\ last = Step("none", 0, NoArgs, << >>, NoneVal, NoneVal)

widgets == <<modelChoices, modelValue, taskChoices, taskValue, customVisible,
             customValue, imageVisible, imageValue, outputImage, pending>>

\* with gr.Blocks(...) as demo: the startup fetch and the provider dropdown.
BuildPage(o) ==
    /\ pc = "start"
    /\ LET models_data == get_models(o)
       IN  IF Has(models_data, "error")
           THEN /\ providerChoices' = <<"Error">>
                /\ providerValue' = "Error"
                /\ pc' = "built"
                /\ fault' = fault
           ELSE IF Len(Keys(models_data)) = 0
                THEN \* list(models_data.keys())[0]
                     /\ pc' = "faulted"
                     /\ fault' = "IndexError"
                     /\ UNCHANGED <<providerChoices, providerValue>>
                ELSE /\ providerChoices' = Keys(models_data)
                     /\ providerValue' = Keys(models_data)[1]
                     /\ pc' = "built"
                     /\ fault' = fault
    /\ last' = Step("build", o, NoArgs, << >>, NoneVal, fault')
    /\ UNCHANGED widgets

\* The settings of the PORT environment variable: unset, not a number, a number.
PortSettings == {NoneVal, "http", "7860"}

\* demo.launch(server_name="0.0.0.0", server_port=int(environ["PORT"]))
Launch(port) ==
    /\ pc = "built"
    /\ IF port = NoneVal
       THEN pc' = "faulted" /\ fault' = "KeyError"
       ELSE IF port # "7860"
            THEN pc' = "faulted" /\ fault' = "ValueError"
            ELSE pc' = "serving" /\ fault' = fault
    /\ last' = Step("launch", 0, NoArgs, << >>, NoneVal, fault')
    /\ UNCHANGED <<providerChoices, providerValue>>
    /\ UNCHANGED widgets

\* The user picks another provider: provider_dropdown.change is triggered.
SelectProvider(p) ==
    /\ Idle
    /\ InSeq(p, providerChoices)
    /\ p # providerValue
    /\ providerValue' = p
    /\ pending' = pending \cup {"update_model_dropdown"}
    /\ last' = UserStep
    /\ UNCHANGED <<pc, fault, providerChoices, modelChoices, modelValue, taskChoices,
                   taskValue, customVisible, customValue, imageVisible, imageValue,
                   outputImage>>

\* The user picks another model: both model_dropdown.change listeners are triggered.
SelectModel(m) ==
    /\ Idle
    /\ InSeq(m, modelChoices)
    /\ m # modelValue
    /\ modelValue' = m
    /\ pending' = pending \cup {"update_task_dropdown", "show_custom_model"}
    /\ last' = UserStep
    /\ UNCHANGED <<pc, fault, providerChoices, providerValue, modelChoices,
                   taskChoices, taskValue, customVisible, customValue, imageVisible,
                   imageValue, outputImage>>

\* The user picks another task: task_dropdown.change is triggered.
SelectTask(t) ==
    /\ Idle
    /\ InSeq(t, taskChoices)
    /\ t # taskValue
    /\ taskValue' = t
    /\ pending' = pending \cup {"image_visible"}
    /\ last' = UserStep
    /\ UNCHANGED <<pc, fault, providerChoices, providerValue, modelChoices,
                   modelValue, taskChoices, customVisible, customValue, imageVisible,
                   imageValue, outputImage>>

CustomTexts == {"", "my-model"}

\* The user edits the custom model textbox, which is possible while it is shown.
TypeCustomModel(s) ==
    /\ Idle
    /\ customVisible
    /\ s # customValue
    /\ customValue' = s
    /\ last' = UserStep
    /\ UNCHANGED <<pc, fault, providerChoices, providerValue, modelChoices,
                   modelValue, taskChoices, taskValue, customVisible, imageVisible,
                   imageValue, outputImage, pending>>

Images == {NoneVal, "cat.jpg"}

\* The user uploads or clears the input image, which is possible while it is shown.
SetImage(img) ==
    /\ Idle
    /\ imageVisible
    /\ img # imageValue
    /\ imageValue' = img
    /\ last' = UserStep
    /\ UNCHANGED <<pc, fault, providerChoices, providerValue, modelChoices,
                   modelValue, taskChoices, taskValue, customVisible, customValue,
                   imageVisible, outputImage, pending>>

\* provider_dropdown.change(fn=update_model_dropdown, ...) runs, with its own fetch.
RunUpdateModelDropdown(o) ==
    /\ pc = "serving"
    /\ "update_model_dropdown" \in pending
    /\ LET upd == update_model_dropdown(providerValue, get_models(o))
           new == UpdatedValue(modelValue, upd)
       IN  /\ modelChoices' = upd.choices
           /\ modelValue' = new
           /\ pending' = (pending \ {"update_model_dropdown"}) \cup
                 (IF new # modelValue
                  THEN {"update_task_dropdown", "show_custom_model"} ELSE {})
    /\ last' = Step("update_model_dropdown", o,
                    [NoArgs EXCEPT !.provider = providerValue], << >>, NoneVal, NoneVal)
    /\ UNCHANGED <<pc, fault, providerChoices, providerValue, taskChoices, taskValue,
                   customVisible, customValue, imageVisible, imageValue, outputImage>>

\* model_dropdown.change(fn=update_task_dropdown, ...) runs, with its own fetch.
RunUpdateTaskDropdown(o) ==
    /\ pc = "serving"
    /\ "update_task_dropdown" \in pending
    /\ LET upd == update_task_dropdown(providerValue, modelValue, get_models(o))
           new == UpdatedValue(taskValue, upd)
       IN  /\ taskChoices' = upd.choices
           /\ taskValue' = new
           /\ pending' = (pending \ {"update_task_dropdown"}) \cup
                 (IF new # taskValue THEN {"image_visible"} ELSE {})
    /\ last' = Step("update_task_dropdown", o,
                    [NoArgs EXCEPT !.provider = providerValue, !.model = modelValue],
                    << >>, NoneVal, NoneVal)
    /\ UNCHANGED <<pc, fault, providerChoices, providerValue, modelChoices, modelValue,
                   customVisible, customValue, imageVisible, imageValue, outputImage>>

\* model_dropdown.change(fn=show_custom_model, ...) runs.
RunShowCustomModel ==
    /\ pc = "serving"
    /\ "show_custom_model" \in pending
    /\ customVisible' = show_custom_model(providerValue, modelValue)
    /\ pending' = pending \ {"show_custom_model"}
    /\ last' = Step("show_custom_model", 0,
                    [NoArgs EXCEPT !.provider = providerValue, !.model = modelValue],
                    << >>, NoneVal, NoneVal)
    /\ UNCHANGED <<pc, fault, providerChoices, providerValue, modelChoices, modelValue,
                   taskChoices, taskValue, customValue, imageVisible, imageValue,
                   outputImage>>

\* task_dropdown.change(fn=lambda x: ..., ...) runs.
RunImageVisible ==
    /\ pc = "serving"
    /\ "image_visible" \in pending
    /\ imageVisible' = image_visible(taskValue)
    /\ pending' = pending \ {"image_visible"}
    /\ last' = Step("image_visible", 0, [NoArgs EXCEPT !.task = taskValue],
                    << >>, NoneVal, NoneVal)
    /\ UNCHANGED <<pc, fault, providerChoices, providerValue, modelChoices, modelValue,
                   taskChoices, taskValue, customVisible, customValue, imageValue,
                   outputImage>>

Prompts == {"", "a cat"}

\* submit_btn.click(fn=generate_image, ...): the call gets the current value of
\* every input; what it returns replaces the output, and nothing does if it raises.
Submit(prompt, response) ==
    /\ pc = "serving"
    /\ LET r == generate_image(providerValue, modelValue, taskValue, prompt,
                               imageValue, customValue, response)
       IN  /\ outputImage' = IF r.raised = NoneVal THEN r.ret ELSE outputImage
           /\ last' = Step("generate_image", 0,
                           [provider |-> providerValue, model |-> modelValue,
                            task |-> taskValue, prompt |-> prompt,
                            input_image |-> imageValue, custom_model |-> customValue],
                           r.body, r.ret, r.raised)
    /\ UNCHANGED <<pc, fault, providerChoices, providerValue, modelChoices, modelValue,
                   taskChoices, taskValue, customVisible, customValue, imageVisible,
                   imageValue, pending>>

Next ==
    \/ \E o \in FetchOutcomes : BuildPage(o)
    \/ \E port \in PortSettings : Launch(port)
    \/ \E p \in {"openai", "stability", "idle", "error", "Error"} : SelectProvider(p)
    \/ \E m \in {"*", "dall-e", "sdxl", "draft", ErrorLoadingModels} : SelectModel(m)
    \/ \E t \in {T2I, I2I, ErrorLoadingModels} : SelectTask(t)
    \/ \E s \in CustomTexts : TypeCustomModel(s)
    \/ \E img \in Images : SetImage(img)
    \/ \E o \in FetchOutcomes : RunUpdateModelDropdown(o)
    \/ \E o \in FetchOutcomes : RunUpdateTaskDropdown(o)
    \/ RunShowCustomModel
    \/ RunImageVisible
    \/ \E prompt \in Prompts, response \in Responses : Submit(prompt, response)

Spec == Init /\ [][Next]_vars

(***************************************************************************)
(* Properties                                                              *)
(***************************************************************************)
Ran(op) == last.op = op

\* The catalog the most recent listener fetched (it fetched one: last.fetch > 0).
Fetched == Catalog(last.fetch)

FirstOrNone(s) == IF Len(s) > 0 THEN s[1] ELSE NoneVal

\* C1: for every catalog C the fetch returns and every provider p in C,
\* update_model_dropdown(p) leaves the model choices equal to keys(C[p]), in the
\* catalog's order, and the selected model equal to the first of them (none when
\* C[p] is empty).
C1_ModelChoicesAreCatalogKeys ==
    (Ran("update_model_dropdown") /\ last.fetch > 0 /\ Has(Fetched, last.args.provider))
    => /\ modelChoices = Keys(Get(Fetched, last.args.provider))
       /\ modelValue = FirstOrNone(Keys(Get(Fetched, last.args.provider)))

\* C2: for every catalog C, provider p in C and model m in C[p],
\* update_task_dropdown(p, m) leaves the task choices equal to C[p][m] and the
\* selected task equal to its first element (none when it is empty).
C2_TaskChoicesAreCatalogTasks ==
    (/\ Ran("update_task_dropdown")
     /\ last.fetch > 0
     /\ Has(Fetched, last.args.provider)
     /\ Has(Get(Fetched, last.args.provider), last.args.model))
    => /\ taskChoices = Get(Get(Fetched, last.args.provider), last.args.model)
       /\ taskValue = FirstOrNone(Get(Get(Fetched, last.args.provider), last.args.model))

\* A request was encoded and posted by the most recent step.
Posted == Ran("generate_image") /\ last.raised = NoneVal

\* C3 (as claimed): the encoded request holds an image part exactly when the
\* submitted task is "image_to_image".
C3_ImagePartIffImageTask ==
    Posted => (HasPart(last.body, "image") <=> last.args.task = I2I)

\* C3 (amended): the encoded request holds an image part exactly when the
\* submitted task is "image_to_image" and an input image was supplied; the part
\* then carries the PNG bytes as image/png.
C3_ImagePartIffImageTaskAndImage ==
    Posted =>
      /\ HasPart(last.body, "image")
           <=> (last.args.task = I2I /\ last.args.input_image # NoneVal)
      /\ HasPart(last.body, "image") =>
           \E i \in 1..Len(last.body) :
              /\ last.body[i] = Line("Content-Disposition", "image", "input.png")
              /\ last.body[i + 1] = Line("Content-Type", "image/png", "")
              /\ last.body[i + 3].b = "bytes"

\* An image was supplied, the task is another one, and the request has no image part.
C3_Witness ==
    /\ Posted
    /\ last.args.input_image # NoneVal
    /\ last.args.task = T2I
    /\ ~HasPart(last.body, "image")

\* C4: a generation call never raises: it returns an image or a string
\* "Error: <detail>", from whatever state of the page it was submitted.
C4_GenerationReturnsImageOrError ==
    Ran("generate_image") =>
      /\ last.raised = NoneVal
      /\ (last.ret = DecodedImage \/ IsErrorString(last.ret))

\* C5 (as claimed): after a provider-change or model-change listener that ran
\* while the fetch failed, the model and task dropdowns offer no choices.
C5_NoChoicesAfterFailedFetch ==
    ((Ran("update_model_dropdown") \/ Ran("update_task_dropdown")) /\ last.fetch = 0)
    => (modelChoices = << >> /\ taskChoices = << >>)

\* C5 (amended): after a failed startup fetch the provider dropdown offers the one
\* entry "Error", selected; a provider-change listener that ran while the fetch
\* failed leaves the model dropdown with the one choice "Error loading models",
\* and a model-change listener that ran while the fetch failed leaves the task
\* dropdown with that one choice.
C5_SentinelChoiceAfterFailedFetch ==
    /\ (Ran("build") /\ last.fetch = 0)
         => (providerChoices = <<"Error">> /\ providerValue = "Error")
    /\ (Ran("update_model_dropdown") /\ last.fetch = 0)
         => modelChoices = <<ErrorLoadingModels>>
    /\ (Ran("update_task_dropdown") /\ last.fetch = 0)
         => taskChoices = <<ErrorLoadingModels>>

\* The model-change listener ran on a failed fetch after an earlier failed fetch
\* of the provider-change listener.
C5_Witness ==
    /\ Ran("update_task_dropdown")
    /\ last.fetch = 0
    /\ modelChoices = <<ErrorLoadingModels>>
    /\ taskChoices = <<ErrorLoadingModels>>

\* C6: the process ends at startup only for a missing or invalid PORT: building
\* the page never faults, whatever the startup fetch returned.
C6_OnlyPortIsFatal ==
    pc = "faulted" => (Ran("launch") /\ fault \in {"KeyError", "ValueError"})

\* C7: the model field of the encoded request is the custom model string when
\* the selected model is "*" and a non-empty custom model was given, and the
\* selected model in every other case.
C7_ModelFieldResolution ==
    Posted =>
      PartValue(last.body, "model") =
        IF last.args.model = "*" /\ last.args.custom_model \notin {"", NoneVal}
        THEN last.args.custom_model
        ELSE last.args.model

\* A custom model was typed, another model was selected later, and a request went out.
C7_Witness ==
    /\ Posted
    /\ last.args.model \notin {"*", NoneVal}
    /\ last.args.custom_model = "my-model"

\* C8: once the triggered listeners have run, the custom model field is visible
\* exactly when the selected model is "*" and the image field is visible exactly
\* when the selected task is "image_to_image"; both are hidden at first.
C8_VisibilityFollowsSelection ==
    pending = {} =>
      /\ customVisible <=> (modelValue = "*")
      /\ imageVisible <=> (taskValue = I2I)

\* Both fields are shown, after listeners ran.
C8_Witness ==
    /\ Idle
    /\ modelValue = "*"
    /\ customVisible
    /\ taskValue = I2I
    /\ imageVisible

\* C10: once the triggered listeners have run, the selected model is none or one
\* of the model choices, and the selected task is none or one of the task choices.
C10_SelectionsAmongChoices ==
    pending = {} =>
      /\ (modelValue = NoneVal \/ InSeq(modelValue, modelChoices))
      /\ (taskValue = NoneVal \/ InSeq(taskValue, taskChoices))

====
